---- MODULE Spec2Model ----
(***************************************************************************)
(* Snakes on a Plane (snake_simulation_modified.py): several snakes of     *)
(* fixed length random-walk on a 2D lattice with 'wall' or 'periodic'      *)
(* boundary conditions, sharing one boolean occupancy array.               *)
(*                                                                         *)
(* Snake.move and Grid.go are translated statement by statement.  One      *)
(* step of the model is one pass of a loop header of Grid.go, or the body  *)
(* of the inner loop for one snake (lines 194-216).  numpy indexing is     *)
(* modelled as numpy does it: an index k into an axis of size n is valid   *)
(* iff -n <= k < n, a negative index counts from the end, anything else    *)
(* raises IndexError, which ends go() (pc = "crashed").                    *)
(***************************************************************************)
EXTENDS Integers, Sequences, FiniteSets, TLC

\* ---- bounds of the model ------------------------------------------------
MaxX == 2        \* gridsize[0] ranges over 1..MaxX
MaxY == 2        \* gridsize[1] ranges over 1..MaxY
MaxLen == 3      \* snake lengths range over 1..MaxLen
MaxSnakes == 2   \* the tuple of snakes has 0..MaxSnakes members
MaxSteps == 2    \* nSteps ranges over 0..MaxSteps

VARIABLES
    snakes,      \* Grid.snakes: sequence of Snake objects (records)
    xmax, ymax,  \* Grid.xmax, Grid.ymax
    bc,          \* Grid.bc
    nSteps,      \* Grid.nSteps
    occupied,    \* Grid.occupied: [ (0..xmax) \X (0..ymax) -> BOOLEAN ]
    pc,          \* position in Grid.go: "while", "for", "turn", "done", "crashed"
    j,           \* 'for j in range(nSteps)': index of the pass of the inner loop
    i,           \* index (1-based) of the snake the inner loop handles next
    ticks        \* number of completed passes of the inner loop (saturates)

vars == <<snakes, xmax, ymax, bc, nSteps, occupied, pc, j, i, ticks>>

Directions == {"north", "east", "south", "west"}
Policies == {"wall", "periodic"}

Last(s) == s[Len(s)]
ButLast(s) == SubSeq(s, 1, Len(s) - 1)

\* ---- numpy indexing ------------------------------------------------------
\* An index k into an axis with n entries is accepted iff -n <= k < n.
NpValid(k, n) == (k >= -n) /\ (k < n)
\* The entry an accepted index addresses (negative indices count from the end).
NpIndex(k, n) == IF k < 0 THEN k + n ELSE k

\* occupied[x, y] for indices numpy accepts
At(occ, x, y) == occ[<<NpIndex(x, xmax + 1), NpIndex(y, ymax + 1)>>]
\* occupied[x, y] = v
SetAt(occ, x, y, v) ==
    [occ EXCEPT ![<<NpIndex(x, xmax + 1), NpIndex(y, ymax + 1)>>] = v]
\* both indices of occupied[x, y] are accepted
InRange(x, y) == NpValid(x, xmax + 1) /\ NpValid(y, ymax + 1)

\* occupied[xs, ys] = True (fancy indexing with two index arrays): numpy
\* checks every index before it writes.
RECURSIVE SetAll(_, _, _)
SetAll(occ, xs, ys) ==
    IF xs = <<>> THEN occ
    ELSE SetAll(SetAt(occ, Head(xs), Head(ys), TRUE), Tail(xs), Tail(ys))
AllInRange(xs, ys) == \A k \in 1..Len(xs) : InRange(xs[k], ys[k])

\* ---- Snake.__init__ ------------------------------------------------------
\* np.arange(start, start + step*length, step)
Arange(start, step, length) == [k \in 1..length |-> start + step * (k - 1)]
Repeat(v, length) == [k \in 1..length |-> v]

SnakeInit(position, orientation, length) ==
    [ xpos |-> position[1],
      ypos |-> position[2],
      linexpos |-> CASE orientation \in {"north", "south"} -> Repeat(position[1], length)
                     [] orientation = "east" -> Arange(position[1], -1, length)
                     [] orientation = "west" -> Arange(position[1], 1, length),
      lineypos |-> CASE orientation = "north" -> Arange(position[2], -1, length)
                     [] orientation = "south" -> Arange(position[2], 1, length)
                     [] orientation \in {"east", "west"} -> Repeat(position[2], length),
      length |-> length,
      direction |-> "None",
      trapped |-> FALSE ]

\* the set of lattice cells in a snake's body path (head included)
Cells(w) == {<<w.linexpos[k], w.lineypos[k]>> : k \in 1..Len(w.linexpos)}
OnGrid(c, xm, ym) == c[1] \in 0..xm /\ c[2] \in 0..ym

\* ---- Snake.move ----------------------------------------------------------
\* as Disallowed, but testing the edges only, never the occupancy map
DisallowedEdgesOnly(w, xm, ym, b, occ) ==
    IF b = "wall" THEN
        {d \in Directions :
            \/ d = "north" /\ w.ypos = ym
            \/ d = "east"  /\ w.xpos = xm
            \/ d = "south" /\ w.ypos = 0
            \/ d = "west"  /\ w.xpos = 0}
    ELSE {}

\* The directions move() adds to 'disallowed' (lines 75-97).  'or' and 'and'
\* evaluate their right operand only when the left one does not decide.
Disallowed(w, xm, ym, b, occ) ==
    IF b = "wall" THEN
        {d \in Directions :
            \/ d = "north" /\ (w.ypos = ym \/ At(occ, w.xpos, w.ypos + 1))
            \/ d = "east"  /\ (w.xpos = xm \/ At(occ, w.xpos + 1, w.ypos))
            \/ d = "south" /\ (w.ypos = 0 \/ At(occ, w.xpos, w.ypos - 1))
            \/ d = "west"  /\ (w.xpos = 0 \/ At(occ, w.xpos - 1, w.ypos))}
    ELSE IF b = "periodic" THEN
        {d \in Directions :
            \/ d = "north" /\ (\/ (w.ypos = ym /\ At(occ, w.xpos, (w.ypos + 1) % ym))
                               \/ (w.ypos < ym /\ At(occ, w.xpos, w.ypos + 1)))
            \/ d = "east"  /\ (\/ (w.xpos = xm /\ At(occ, (w.xpos + 1) % xm, w.ypos))
                               \/ (w.xpos < xm /\ At(occ, w.xpos + 1, w.ypos)))
            \/ d = "south" /\ (\/ (w.ypos = 0 /\ At(occ, w.xpos, (w.ypos - 1) % ym))
                               \/ (w.ypos > 0 /\ At(occ, w.xpos, w.ypos - 1)))
            \/ d = "west"  /\ (\/ (w.xpos = 0 /\ At(occ, (w.xpos - 1) % xm, w.ypos))
                               \/ (w.xpos > 0 /\ At(occ, w.xpos - 1, w.ypos)))}
    ELSE {}

\* The index pairs lines 77-97 read from 'occupied' (a read happens only
\* where the edge test before it lets evaluation reach it).
LegalityReads(w, xm, ym, b) ==
    IF b = "wall" THEN
        (IF w.ypos = ym THEN {} ELSE {<<w.xpos, w.ypos + 1>>}) \cup
        (IF w.xpos = xm THEN {} ELSE {<<w.xpos + 1, w.ypos>>}) \cup
        (IF w.ypos = 0 THEN {} ELSE {<<w.xpos, w.ypos - 1>>}) \cup
        (IF w.xpos = 0 THEN {} ELSE {<<w.xpos - 1, w.ypos>>})
    ELSE IF b = "periodic" THEN
        (IF w.ypos = ym THEN {<<w.xpos, (w.ypos + 1) % ym>>}
         ELSE IF w.ypos < ym THEN {<<w.xpos, w.ypos + 1>>} ELSE {}) \cup
        (IF w.xpos = xm THEN {<<(w.xpos + 1) % xm, w.ypos>>}
         ELSE IF w.xpos < xm THEN {<<w.xpos + 1, w.ypos>>} ELSE {}) \cup
        (IF w.ypos = 0 THEN {<<w.xpos, (w.ypos - 1) % ym>>}
         ELSE IF w.ypos > 0 THEN {<<w.xpos, w.ypos - 1>>} ELSE {}) \cup
        (IF w.xpos = 0 THEN {<<(w.xpos - 1) % xm, w.ypos>>}
         ELSE IF w.xpos > 0 THEN {<<w.xpos - 1, w.ypos>>} ELSE {})
    ELSE {}

\* Lines 85-97: the index pair whose bit decides, under 'periodic', whether
\* direction d is added to 'disallowed' (head coordinates within 0..max).
DecidingCell(w, d, xm, ym) ==
    CASE d = "north" -> <<w.xpos, IF w.ypos = ym THEN (w.ypos + 1) % ym ELSE w.ypos + 1>>
      [] d = "east"  -> <<IF w.xpos = xm THEN (w.xpos + 1) % xm ELSE w.xpos + 1, w.ypos>>
      [] d = "south" -> <<w.xpos, IF w.ypos = 0 THEN (w.ypos - 1) % ym ELSE w.ypos - 1>>
      [] d = "west"  -> <<IF w.xpos = 0 THEN (w.xpos - 1) % xm ELSE w.xpos - 1, w.ypos>>

\* as Allowed, but with nothing taken out of the four directions
AllowedAll(w, xm, ym, b, occ) == Directions

\* allowed = {'north', 'east', 'south', 'west'}.difference(disallowed)
Allowed(w, xm, ym, b, occ) == Directions \ Disallowed(w, xm, ym, b, occ)

\* Lines 111-126: the head after self.direction = d has been applied.
StepX(w, d, xm, b) ==
    IF d = "east" /\ ((b = "wall" /\ w.xpos < xm) \/ b = "periodic") THEN w.xpos + 1
    ELSE IF d = "west" /\ ((b = "wall" /\ w.xpos > 0) \/ b = "periodic") THEN w.xpos - 1
    ELSE w.xpos
StepY(w, d, ym, b) ==
    IF d = "north" /\ ((b = "wall" /\ w.ypos < ym) \/ b = "periodic") THEN w.ypos + 1
    ELSE IF d = "south" /\ ((b = "wall" /\ w.ypos > 0) \/ b = "periodic") THEN w.ypos - 1
    ELSE w.ypos

\* as Normalize, but reducing modulo the number of positions on the axis
NormalizeAllPositions(v, max) == v % (max + 1)

\* Lines 145-148: if self.xpos != xmax: self.xpos = self.xpos % xmax
Normalize(v, max) == IF v # max THEN v % max ELSE v

\* as Advance, without the np.delete
AdvanceNoDelete(v, line) == <<v>> \o line

\* Lines 129-132: np.append(head, line) followed by np.delete(line, -1)
Advance(v, line) == ButLast(<<v>> \o line)

\* as Moved, but a successful move also resets the trapped flag
MovedClearsTrapped(w, d, xm, ym, b) ==
    [w EXCEPT !.direction = d,
              !.linexpos = Advance(StepX(w, d, xm, b), w.linexpos),
              !.lineypos = Advance(StepY(w, d, ym, b), w.lineypos),
              !.xpos = Normalize(StepX(w, d, xm, b), xm),
              !.ypos = Normalize(StepY(w, d, ym, b), ym),
              !.trapped = FALSE]

\* The else branch of move (lines 110-148) when random.choice returns d.
Moved(w, d, xm, ym, b) ==
    LET x1 == StepX(w, d, xm, b)
        y1 == StepY(w, d, ym, b)
    IN [w EXCEPT !.direction = d,
                 !.linexpos = Advance(x1, w.linexpos),
                 !.lineypos = Advance(y1, w.lineypos),
                 !.xpos = Normalize(x1, xm),
                 !.ypos = Normalize(y1, ym)]

\* Lines 102-103: no direction is allowed.
Trap(w) == [w EXCEPT !.trapped = TRUE]

\* as MoveResults, but with every grid handled as a periodic one
MoveResultsPeriodic(w, xm, ym, b, occ) ==
    LET allowed == Allowed(w, xm, ym, "periodic", occ)
    IN IF allowed = {} THEN {Trap(w)}
       ELSE {Moved(w, d, xm, ym, "periodic") : d \in allowed}

\* The snakes move() can leave behind: one per direction random.choice can
\* return, or the trapped snake when nothing is allowed.
MoveResults(w, xm, ym, b, occ) ==
    LET allowed == Allowed(w, xm, ym, b, occ)
    IN IF allowed = {} THEN {Trap(w)}
       ELSE {Moved(w, d, xm, ym, b) : d \in allowed}

\* ---- Grid.__init__ -------------------------------------------------------
\* np.zeros([xmax + 1, ymax + 1], dtype = bool)
Zeros(xm, ym) == [c \in (0..xm) \X (0..ym) |-> FALSE]

\* Lines 177-181: mark the head and the body of every snake.
RECURSIVE MarkSnakes(_, _)
MarkSnakes(occ, ss) ==
    IF ss = <<>> THEN occ
    ELSE LET w == Head(ss)
         IN MarkSnakes(SetAll(SetAt(occ, w.xpos, w.ypos, TRUE), w.linexpos, w.lineypos),
                       Tail(ss))

\* The snakes a caller can construct with head and body inside the grid.
SnakeChoices(xm, ym) ==
    {w \in {SnakeInit(<<x, y>>, o, L) :
                x \in 0..xm, y \in 0..ym, o \in Directions, L \in 1..MaxLen} :
        \A c \in Cells(w) : OnGrid(c, xm, ym)}

PairwiseDisjoint(ss) ==
    \A a, b \in 1..Len(ss) : a # b => Cells(ss[a]) \cap Cells(ss[b]) = {}

\* The tuples of snakes handed to Grid(): in bounds and pairwise disjoint.
Placements(xm, ym) ==
    UNION {{ss \in [1..n -> SnakeChoices(xm, ym)] : PairwiseDisjoint(ss)} :
              n \in 0..MaxSnakes}

Init ==
    /\ xmax \in 1..MaxX
    /\ ymax \in 1..MaxY
    /\ bc \in Policies
    /\ nSteps \in 0..MaxSteps
    /\ snakes \in Placements(xmax, ymax)
    /\ occupied = MarkSnakes(Zeros(xmax, ymax), snakes)
    /\ pc = "while"
    /\ j = 0
    /\ i = 1
    /\ ticks = 0

\* Neither constructor validates bc or length: Grid() stores any bc value
\* (line 167) and Snake() builds its body with [x]*length and np.arange,
\* which are empty for length < 1 (lines 37-52).
AnyPolicies == Policies \cup {"other"}

\* The snakes a caller can construct with any length 0..MaxLen.
SnakeChoicesAnyLength(xm, ym) ==
    {w \in {SnakeInit(<<x, y>>, o, L) :
                x \in 0..xm, y \in 0..ym, o \in Directions, L \in 0..MaxLen} :
        \A c \in Cells(w) : OnGrid(c, xm, ym)}

PlacementsAnyLength(xm, ym) ==
    UNION {{ss \in [1..n -> SnakeChoicesAnyLength(xm, ym)] :
                \A a, b \in 1..n : a # b =>
                    (Cells(ss[a]) \cup {<<ss[a].xpos, ss[a].ypos>>}) \cap
                    (Cells(ss[b]) \cup {<<ss[b].xpos, ss[b].ypos>>}) = {}} :
              n \in 0..MaxSnakes}

\* Grid.__init__ on every bc value and every snake length it accepts.
InitUnvalidated ==
    /\ xmax \in 1..MaxX
    /\ ymax \in 1..MaxY
    /\ bc \in AnyPolicies
    /\ nSteps \in 0..MaxSteps
    /\ snakes \in PlacementsAnyLength(xmax, ymax)
    /\ occupied = MarkSnakes(Zeros(xmax, ymax), snakes)
    /\ pc = "while"
    /\ j = 0
    /\ i = 1
    /\ ticks = 0

\* One snake of length 3 built at (2,2) facing north, alone on a wall grid
\* in which (2,2) is interior (xmax, ymax >= 3).
InitInterior ==
    /\ xmax \in 3..(MaxX + 2)
    /\ ymax \in 3..(MaxY + 2)
    /\ bc = "wall"
    /\ nSteps \in 0..MaxSteps
    /\ snakes = <<SnakeInit(<<2, 2>>, "north", 3)>>
    /\ occupied = MarkSnakes(Zeros(xmax, ymax), snakes)
    /\ pc = "while"
    /\ j = 0
    /\ i = 1
    /\ ticks = 0

\* Grid.__init__ for wall grids and runs of up to MaxSteps + 2 ticks.
InitWallLong ==
    /\ xmax \in 1..MaxX
    /\ ymax \in 1..MaxY
    /\ bc = "wall"
    /\ nSteps \in 0..(MaxSteps + 2)
    /\ snakes \in Placements(xmax, ymax)
    /\ occupied = MarkSnakes(Zeros(xmax, ymax), snakes)
    /\ pc = "while"
    /\ j = 0
    /\ i = 1
    /\ ticks = 0

\* ---- Grid.go -------------------------------------------------------------
AllTrapped == \A k \in 1..Len(snakes) : snakes[k].trapped

\* Lines 208-216: under 'periodic' a head on an edge also marks the cell on
\* the opposite edge.
Mirror(occ, w) ==
    IF bc = "periodic" THEN
        LET occA == IF w.xpos = xmax THEN SetAt(occ, 0, w.ypos, TRUE)
                    ELSE IF w.xpos = 0 THEN SetAt(occ, xmax, w.ypos, TRUE)
                    ELSE occ
        IN IF w.ypos = ymax THEN SetAt(occA, w.xpos, 0, TRUE)
           ELSE IF w.ypos = 0 THEN SetAt(occA, w.xpos, ymax, TRUE)
           ELSE occA
    ELSE occ

\* as ClearTail, but the tail bit is left as it was
ClearTailForgotten(occ, w) == occ

\* Line 194: occupied[w.linexpos[-1], w.lineypos[-1]] = False
ClearTail(occ, w) == SetAt(occ, Last(w.linexpos), Last(w.lineypos), FALSE)

\* as MarkAfterMove, but marking a trapped snake as well
MarkAfterMoveAlways(occ, w2) ==
    [w |-> w2,
     occ |-> Mirror(SetAll(SetAt(occ, w2.xpos, w2.ypos, TRUE), w2.linexpos, w2.lineypos), w2),
     crashed |-> FALSE]

\* Lines 196-216 for the snake w2 that move() left behind.
MarkAfterMove(occ, w2) ==
    IF w2.trapped THEN [w |-> w2, occ |-> occ, crashed |-> FALSE]
    ELSE IF ~InRange(w2.xpos, w2.ypos) THEN [w |-> w2, occ |-> occ, crashed |-> TRUE]
    ELSE LET occH == SetAt(occ, w2.xpos, w2.ypos, TRUE)
         IN IF ~AllInRange(w2.linexpos, w2.lineypos)
            THEN [w |-> w2, occ |-> occH, crashed |-> TRUE]
            ELSE [w |-> w2, occ |-> Mirror(SetAll(occH, w2.linexpos, w2.lineypos), w2),
                  crashed |-> FALSE]

\* as TurnOutcomes, but with move() called on the map as it was before the
\* tail bit is cleared
TurnOutcomesLegalityFirst(w, occ) ==
    IF Len(w.linexpos) = 0 \/ ~InRange(Last(w.linexpos), Last(w.lineypos))
    THEN {[w |-> w, occ |-> occ, crashed |-> TRUE]}
    ELSE IF \E c \in LegalityReads(w, xmax, ymax, bc) : ~InRange(c[1], c[2])
    THEN {[w |-> w, occ |-> ClearTail(occ, w), crashed |-> TRUE]}
    ELSE {MarkAfterMove(ClearTail(occ, w), w2) : w2 \in MoveResults(w, xmax, ymax, bc, occ)}

\* Lines 194-216, the body of the inner loop for snake w: every (snake,
\* occupancy, IndexError raised) it can end with.
TurnOutcomes(w, occ) ==
    IF Len(w.linexpos) = 0 \/ ~InRange(Last(w.linexpos), Last(w.lineypos))
    THEN {[w |-> w, occ |-> occ, crashed |-> TRUE]}
    ELSE LET occ1 == ClearTail(occ, w)
         IN IF \E c \in LegalityReads(w, xmax, ymax, bc) : ~InRange(c[1], c[2])
            THEN {[w |-> w, occ |-> occ1, crashed |-> TRUE]}
            ELSE {MarkAfterMove(occ1, w2) : w2 \in MoveResults(w, xmax, ymax, bc, occ1)}

\* as AfterFor, without the break: control returns to the while test
AfterForNoBreak == "while"

\* Line 220: 'break' leaves the while loop once the for loop has run out.
AfterFor == "done"

\* Line 191: while not all([w.trapped for w in self.snakes]); entering the
\* body starts a fresh range(nSteps), so j counts from 0.
GoWhile ==
    /\ pc = "while"
    /\ pc' = IF AllTrapped THEN "done" ELSE "for"
    /\ j' = 0
    /\ UNCHANGED <<snakes, xmax, ymax, bc, nSteps, occupied, i, ticks>>

\* Line 192: for j in range(self.nSteps)
ForStep ==
    /\ pc = "for"
    /\ IF j < nSteps
       THEN pc' = "turn" /\ i' = 1
       ELSE pc' = AfterFor /\ i' = i
    /\ UNCHANGED <<snakes, xmax, ymax, bc, nSteps, occupied, j, ticks>>

\* Lines 193-216 for snake i, then the next snake or (line 219) the next j.
Turn ==
    /\ pc = "turn"
    /\ \E o \in TurnOutcomes(snakes[i], occupied) :
        /\ snakes' = [snakes EXCEPT ![i] = o.w]
        /\ occupied' = o.occ
        /\ IF o.crashed
           THEN pc' = "crashed" /\ UNCHANGED <<i, j, ticks>>
           ELSE IF i < Len(snakes)
           THEN i' = i + 1 /\ UNCHANGED <<pc, j, ticks>>
           ELSE /\ pc' = "for"
                /\ j' = j + 1
                /\ i' = 1
                /\ ticks' = IF ticks <= MaxSteps THEN ticks + 1 ELSE ticks
    /\ UNCHANGED <<xmax, ymax, bc, nSteps>>

Next == GoWhile \/ ForStep \/ Turn

Spec == Init /\ [][Next]_vars

\* go() is a sequential program: whenever a statement can run, it runs.
FairSpec == Spec /\ WF_vars(Next)

\* go() on a grid built from unvalidated arguments
SpecUnvalidated == InitUnvalidated /\ [][Next]_vars

\* go() for the single snake built at (2,2)
SpecInterior == InitInterior /\ [][Next]_vars

\* go() on wall grids, for the longer runs
SpecWallLong == InitWallLong /\ [][Next]_vars

\* ---- vocabulary of the properties ----------------------------------------
SnakeIds == 1..Len(snakes)
\* head and body path of a snake, as coordinates
Body(w) == Cells(w) \cup {<<w.xpos, w.ypos>>}
\* between two ticks: the inner loop has handled every snake
TickEnd == pc \in {"for", "done"}
Finished == pc \in {"done", "crashed"}
GridCells == (0..xmax) \X (0..ymax)
TrueCells == {c \in GridCells : occupied[c]}
RECURSIVE SumLengths(_)
SumLengths(ss) == IF ss = <<>> THEN 0 ELSE Head(ss).length + SumLengths(Tail(ss))
\* the step is the inner-loop body of snake k and move() took its else branch
MovedIn(k) ==
    /\ pc = "turn" /\ i = k
    /\ <<snakes'[k].linexpos, snakes'[k].lineypos>> # <<snakes[k].linexpos, snakes[k].lineypos>>

\* the inner-loop body is about to run for the first time
FirstTurn == pc = "turn" /\ j = 0 /\ i = 1

\* the lattice site one step from (x, y) in direction d
Neighbour(x, y, d) ==
    CASE d = "north" -> <<x, y + 1>>
      [] d = "east"  -> <<x + 1, y>>
      [] d = "south" -> <<x, y - 1>>
      [] d = "west"  -> <<x - 1, y>>
\* the occupancy map go() hands to move() in the turn of snake k
PassedMap(k) == ClearTail(occupied, snakes[k])
\* the directions in which the head of snake k has a neighbouring site on
\* the grid whose bit is false in the map handed to move()
FreeDirs(k) ==
    {d \in Directions :
        LET c == Neighbour(snakes[k].xpos, snakes[k].ypos, d)
        IN OnGrid(c, xmax, ymax) /\ ~PassedMap(k)[c]}
\* the step is the inner-loop body of snake k on a wall grid
WallTurn(k) == pc = "turn" /\ i = k /\ bc = "wall" /\ pc' # "crashed"

\* the last cell of the body path of snake k
TailCell(k) == <<Last(snakes[k].linexpos), Last(snakes[k].lineypos)>>
\* the directions from the head of snake k to its own tail cell
TailDirs(k) ==
    {d \in Directions : Neighbour(snakes[k].xpos, snakes[k].ypos, d) = TailCell(k)}
\* no other snake has a cell on the tail cell of snake k
TailIsOwn(k) == \A m \in SnakeIds \ {k} : TailCell(k) \notin Body(snakes[m])
\* direction d from site (x, y) leaves the grid or meets a marked cell
BlockedFrom(x, y, d) ==
    LET c == Neighbour(x, y, d) IN ~OnGrid(c, xmax, ymax) \/ occupied[c]

\* ---- C1 ------------------------------------------------------------------
\* C1: at the end of every tick no lattice cell belongs to the body paths
\* (head included) of two distinct snakes.
C1_NoSharedCell ==
    TickEnd => \A a, b \in SnakeIds : a # b => Body(snakes[a]) \cap Body(snakes[b]) = {}

\* ---- C2 ------------------------------------------------------------------
\* C2: at the end of every tick a cell of the occupancy map is true iff it
\* is in the body path (head included) of some snake.  Stated for the wall
\* policy, where Grid.go marks no mirror cells.
C2_OccupancyExact ==
    (TickEnd /\ bc = "wall") =>
        \A c \in GridCells : occupied[c] <=> (\E k \in SnakeIds : c \in Body(snakes[k]))

\* ---- C3 ------------------------------------------------------------------
\* C3: under the wall policy the head and every body-path coordinate of
\* every snake, trapped or not, stay within 0..xmax and 0..ymax.
C3_WallContainment ==
    bc = "wall" => \A k \in SnakeIds : \A c \in Body(snakes[k]) : OnGrid(c, xmax, ymax)

\* a trapped snake and a free one that has moved to the east edge, two ticks in
C3_Witness ==
    /\ bc = "wall" /\ ticks >= 2
    /\ \E k \in SnakeIds : snakes[k].trapped
    /\ \E k \in SnakeIds : ~snakes[k].trapped /\ snakes[k].direction = "east"
                           /\ snakes[k].xpos = xmax

\* ---- C4 ------------------------------------------------------------------
\* C4: under the periodic policy a move across an edge puts the head on the
\* opposite edge coordinate: north from ymax gives 0, east from xmax gives
\* 0, south from 0 gives ymax, west from 0 gives xmax.
C4_WrapToOppositeEdge ==
    [][\A k \in SnakeIds : (bc = "periodic" /\ MovedIn(k)) =>
          /\ (snakes'[k].direction = "north" /\ snakes[k].ypos = ymax) => snakes'[k].ypos = 0
          /\ (snakes'[k].direction = "east" /\ snakes[k].xpos = xmax) => snakes'[k].xpos = 0
          /\ (snakes'[k].direction = "south" /\ snakes[k].ypos = 0) => snakes'[k].ypos = ymax
          /\ (snakes'[k].direction = "west" /\ snakes[k].xpos = 0) => snakes'[k].xpos = xmax
      ]_vars

\* C4 (amended): coordinates 0 and max are one site of the torus, so a move
\* across an edge puts the head one site past it: north from ymax gives
\* (ymax + 1) mod ymax, east from xmax gives (xmax + 1) mod xmax, south from
\* 0 gives ymax - 1, west from 0 gives xmax - 1.
C4_WrapPastIdentifiedEdge ==
    [][\A k \in SnakeIds : (bc = "periodic" /\ MovedIn(k)) =>
          /\ (snakes'[k].direction = "north" /\ snakes[k].ypos = ymax)
                => snakes'[k].ypos = (ymax + 1) % ymax
          /\ (snakes'[k].direction = "east" /\ snakes[k].xpos = xmax)
                => snakes'[k].xpos = (xmax + 1) % xmax
          /\ (snakes'[k].direction = "south" /\ snakes[k].ypos = 0)
                => snakes'[k].ypos = ymax - 1
          /\ (snakes'[k].direction = "west" /\ snakes[k].xpos = 0)
                => snakes'[k].xpos = xmax - 1
      ]_vars

\* a snake has just gone east from x = xmax = 2 (the body path keeps the
\* coordinate xmax + 1 the head had before it was normalized)
C4_Witness ==
    /\ bc = "periodic" /\ xmax = 2
    /\ \E k \in SnakeIds : /\ snakes[k].direction = "east"
                           /\ snakes[k].linexpos[1] = xmax + 1
                           /\ snakes[k].xpos = 1

\* ---- C5 ------------------------------------------------------------------
\* C5: once a snake's trapped flag is true, no later step changes its head
\* coordinate or its body path.
C5_TrappedFrozen ==
    [][\A k \in SnakeIds : snakes[k].trapped =>
          /\ snakes'[k].xpos = snakes[k].xpos
          /\ snakes'[k].ypos = snakes[k].ypos
          /\ snakes'[k].linexpos = snakes[k].linexpos
          /\ snakes'[k].lineypos = snakes[k].lineypos
      ]_vars

\* ---- C6 ------------------------------------------------------------------
\* C6: the trapped flag is false at construction and no step takes it from
\* true back to false.
C6_TrappedMonotonic ==
    /\ \A k \in SnakeIds : ~snakes[k].trapped
    /\ [][\A k \in SnakeIds : snakes[k].trapped => snakes'[k].trapped]_vars

\* two ticks in, a snake is trapped, has a direction from an else branch of
\* move(), and stands on a cell whose bit is false
C6_Witness ==
    /\ bc = "wall" /\ ticks >= 2
    /\ \E k \in SnakeIds : /\ snakes[k].trapped
                           /\ snakes[k].direction # "None"
                           /\ ~occupied[<<snakes[k].xpos, snakes[k].ypos>>]

\* ---- C7 ------------------------------------------------------------------
\* C7: once every snake is trapped at the end of a tick, no further tick
\* starts: the inner loop never begins a pass with all snakes trapped.
C7_StopsWhenAllTrapped == ~(pc = "turn" /\ i = 1 /\ j >= 1 /\ AllTrapped)

\* ---- C8 ------------------------------------------------------------------
\* C8: go() never runs more than nSteps ticks, and it ends (after the last
\* tick, even with snakes that are not trapped).
C8_BoundedRun == [](ticks <= nSteps) /\ <>Finished

\* the budget ran out with a snake that is not trapped, and go() returned
C8_Witness == pc = "done" /\ ticks = nSteps /\ nSteps = MaxSteps /\ ~AllTrapped

\* ---- C9 ------------------------------------------------------------------
\* C9: in every state both coordinate arrays of every snake's body path
\* hold exactly as many entries as the length the snake was built with.
C9_BodyLength ==
    \A k \in SnakeIds : /\ snakes[k].length >= 1
                        /\ Len(snakes[k].linexpos) = snakes[k].length
                        /\ Len(snakes[k].lineypos) = snakes[k].length

\* under the periodic policy, one snake has become trapped and another of
\* length MaxLen has moved
C9_Witness ==
    /\ bc = "periodic"
    /\ \E k \in SnakeIds : snakes[k].trapped
    /\ \E k \in SnakeIds : /\ ~snakes[k].trapped /\ snakes[k].direction # "None"
                           /\ snakes[k].length = MaxLen

\* ---- C10 -----------------------------------------------------------------
\* C10: under the wall policy, at the end of every tick in which no snake
\* is trapped yet, the number of true cells equals the sum of the lengths.
C10_OccupancyCount ==
    (bc = "wall" /\ TickEnd /\ \A k \in SnakeIds : ~snakes[k].trapped) =>
        Cardinality(TrueCells) = SumLengths(snakes)

\* two snakes, none trapped, after the last of at least two ticks
C10_Witness ==
    /\ bc = "wall" /\ pc = "done" /\ ticks >= 2 /\ Len(snakes) = 2
    /\ \A k \in SnakeIds : ~snakes[k].trapped /\ snakes[k].direction # "None"

\* ---- C11 -----------------------------------------------------------------
\* C11: every index used on the occupancy map lies within 0..xmax and
\* 0..ymax: go() never ends in an IndexError, and no body-path coordinate
\* (the indices of the tail clearing and of the body marking) leaves the
\* grid, so none is ever -1, xmax + 1 or ymax + 1.
C11_IndicesInBounds ==
    /\ pc # "crashed"
    /\ \A k \in SnakeIds : \A c \in Cells(snakes[k]) : OnGrid(c, xmax, ymax)

\* ---- C12 -----------------------------------------------------------------
\* C12: a boundary policy other than 'wall' or 'periodic' is rejected: no
\* tick is executed with it and no snake ever has move() choose a direction
\* under it.
C12_UnknownPolicyRejected ==
    bc \notin Policies =>
        /\ ticks = 0
        /\ \A k \in SnakeIds : snakes[k].direction = "None"

\* ---- C13 -----------------------------------------------------------------
\* C13: no snake with an empty body path (length < 1) is ever handed to the
\* grid.
C13_NoEmptyBody ==
    \A k \in SnakeIds : /\ snakes[k].length >= 1
                        /\ Len(snakes[k].linexpos) >= 1
                        /\ Len(snakes[k].lineypos) >= 1

\* ---- C14 -----------------------------------------------------------------
\* C14: for the single snake of length 3 built at (2,2) facing north, all
\* four directions are legal on the first tick: each of (2,3), (3,2), (1,2)
\* and (2,1) is a possible head after the tick, the head is always one of
\* them, the body keeps 3 cells and the snake is not trapped.
C14_FourDirections ==
    /\ [](FirstTurn =>
            \A h \in {<<2, 3>>, <<3, 2>>, <<1, 2>>, <<2, 1>>} :
                ENABLED (Turn /\ snakes'[1].xpos = h[1] /\ snakes'[1].ypos = h[2]))
    /\ [][FirstTurn =>
            /\ <<snakes'[1].xpos, snakes'[1].ypos>> \in {<<2, 3>>, <<3, 2>>, <<1, 2>>, <<2, 1>>}
            /\ Len(snakes'[1].linexpos) = 3 /\ Len(snakes'[1].lineypos) = 3
            /\ ~snakes'[1].trapped
        ]_vars

\* C14 (amended): the neck (2,1) is still marked occupied (only the tail
\* bit (2,0) is cleared), so south is not legal: each of (2,3), (3,2) and
\* (1,2) is a possible head after the first tick, the head is always one of
\* these three, the body keeps 3 cells and the snake is not trapped.
C14_ThreeDirections ==
    /\ [](FirstTurn =>
            \A h \in {<<2, 3>>, <<3, 2>>, <<1, 2>>} :
                ENABLED (Turn /\ snakes'[1].xpos = h[1] /\ snakes'[1].ypos = h[2]))
    /\ [][FirstTurn =>
            /\ <<snakes'[1].xpos, snakes'[1].ypos>> \in {<<2, 3>>, <<3, 2>>, <<1, 2>>}
            /\ Len(snakes'[1].linexpos) = 3 /\ Len(snakes'[1].lineypos) = 3
            /\ ~snakes'[1].trapped
        ]_vars

\* the first tick is over and the snake chose west: head (1,2), body
\* (1,2), (2,2), (2,1)
C14_Witness ==
    /\ ticks = 1 /\ pc = "for" /\ Len(snakes) = 1
    /\ snakes[1].direction = "west" /\ ~snakes[1].trapped
    /\ snakes[1].linexpos = <<1, 2, 2>> /\ snakes[1].lineypos = <<2, 2, 1>>

\* ---- C15 -----------------------------------------------------------------
\* C15: under the wall policy, when move() is called on a snake that is not
\* trapped and each of the four directions is blocked (head on that edge or
\* neighbouring cell marked in the map passed in), the snake becomes
\* trapped, and its head, its body path and every bit of that map stay as
\* they were.
C15_TrapLeavesAllUnchanged ==
    [][\A k \in SnakeIds :
          (WallTurn(k) /\ ~snakes[k].trapped /\ FreeDirs(k) = {}) =>
              /\ snakes'[k].trapped
              /\ snakes'[k].xpos = snakes[k].xpos
              /\ snakes'[k].ypos = snakes[k].ypos
              /\ snakes'[k].linexpos = snakes[k].linexpos
              /\ snakes'[k].lineypos = snakes[k].lineypos
              /\ occupied' = PassedMap(k)
      ]_vars

\* the first tick on a wall grid is over and a snake of two or more cells
\* was trapped by its only call of move(): it never chose a direction
C15_Witness ==
    /\ bc = "wall" /\ pc = "for" /\ ticks = 1
    /\ \E k \in SnakeIds : /\ snakes[k].trapped /\ snakes[k].direction = "None"
                           /\ snakes[k].length >= 2

\* ---- C16 -----------------------------------------------------------------
\* C16: under the wall policy the directions move() allows are exactly
\* those whose neighbouring site is on the grid and false in the map passed
\* in: if there is one, the head moves by exactly one cell in such a
\* direction, onto a cell that was false in that map, and every such
\* direction can be the one chosen; if there is none, the snake is trapped
\* and its head stays.
C16_WallLegality ==
    /\ []((pc = "turn" /\ bc = "wall") =>
            \A d \in FreeDirs(i) :
                ENABLED (/\ Turn
                         /\ snakes'[i].direction = d
                         /\ <<snakes'[i].xpos, snakes'[i].ypos>> =
                                Neighbour(snakes[i].xpos, snakes[i].ypos, d)))
    /\ [][\A k \in SnakeIds : WallTurn(k) =>
            IF FreeDirs(k) # {}
            THEN /\ snakes'[k].direction \in FreeDirs(k)
                 /\ <<snakes'[k].xpos, snakes'[k].ypos>> =
                        Neighbour(snakes[k].xpos, snakes[k].ypos, snakes'[k].direction)
                 /\ ~PassedMap(k)[<<snakes'[k].xpos, snakes'[k].ypos>>]
            ELSE /\ snakes'[k].trapped
                 /\ <<snakes'[k].xpos, snakes'[k].ypos>> = <<snakes[k].xpos, snakes[k].ypos>>
        ]_vars

\* on a wall grid the first snake has moved in this tick and the second,
\* whose turn is next, has two or more free directions
C16_Witness ==
    /\ bc = "wall" /\ pc = "turn" /\ i = 2
    /\ snakes[1].direction # "None" /\ ~snakes[1].trapped
    /\ Cardinality(FreeDirs(2)) >= 2

\* ---- C17 -----------------------------------------------------------------
\* C17: in every state the head coordinate (xpos, ypos) of every snake is
\* the first element of its body path.
C17_HeadIsFirst ==
    \A k \in SnakeIds :
        /\ snakes[k].xpos = snakes[k].linexpos[1]
        /\ snakes[k].ypos = snakes[k].lineypos[1]

\* ---- C18 -----------------------------------------------------------------
\* C18: the tail bit is cleared before legality is computed: under the wall
\* policy, when the head of a snake that is not trapped is next to its own
\* tail cell and no other snake covers that cell, the direction toward the
\* tail cell can be chosen in that turn and the snake does not become
\* trapped; if the other three directions are blocked it moves onto the
\* tail cell.
C18_TailClearedBeforeLegality ==
    /\ []((pc = "turn" /\ bc = "wall" /\ ~snakes[i].trapped /\ TailIsOwn(i)) =>
            \A d \in TailDirs(i) :
                ENABLED (/\ Turn
                         /\ snakes'[i].direction = d
                         /\ <<snakes'[i].xpos, snakes'[i].ypos>> = TailCell(i)))
    /\ [][\A k \in SnakeIds :
            (WallTurn(k) /\ ~snakes[k].trapped /\ TailIsOwn(k) /\ TailDirs(k) # {}) =>
                /\ ~snakes'[k].trapped
                /\ (\A d \in Directions \ TailDirs(k) :
                        BlockedFrom(snakes[k].xpos, snakes[k].ypos, d))
                    => <<snakes'[k].xpos, snakes'[k].ypos>> = TailCell(k)
        ]_vars

\* the first tick on a wall grid has ended with the move of a snake of two
\* cells: from its previous head (now its second cell) every direction but
\* the one it took is blocked, so it went onto the tail cell it vacated
C18_Witness ==
    /\ bc = "wall" /\ pc = "for" /\ ticks = 1 /\ Len(snakes) = 2
    /\ LET w == snakes[2]
       IN /\ w.length = 2 /\ ~w.trapped /\ w.direction # "None"
          /\ \A d \in Directions \ {w.direction} :
                BlockedFrom(w.linexpos[2], w.lineypos[2], d)

\* ---- C19 -----------------------------------------------------------------
\* C19: under the periodic policy, for every head position and every
\* direction, the cell whose bit decides whether move() disallows the
\* direction is the cell the head is on after the direction has been
\* applied and the coordinate normalized.
C19_CheckedCellIsLandingCell ==
    (pc = "turn" /\ bc = "periodic" /\ InRange(TailCell(i)[1], TailCell(i)[2])) =>
        \A d \in Directions :
            LET w == snakes[i]
                c == DecidingCell(w, d, xmax, ymax)
                landed == Moved(w, d, xmax, ymax, bc)
            IN /\ OnGrid(c, xmax, ymax)
               /\ (d \in Disallowed(w, xmax, ymax, bc, PassedMap(i))) <=> PassedMap(i)[c]
               /\ c = <<landed.xpos, landed.ypos>>

\* on a periodic grid a snake that has already moved is about to move
\* again from the corner (0, ymax), with a direction across an edge allowed
\* and another direction disallowed
C19_Witness ==
    /\ pc = "turn" /\ bc = "periodic" /\ InRange(TailCell(i)[1], TailCell(i)[2])
    /\ snakes[i].direction # "None"
    /\ snakes[i].xpos = 0 /\ snakes[i].ypos = ymax
    /\ Disallowed(snakes[i], xmax, ymax, bc, PassedMap(i)) # {}
    /\ {"north", "west"} \cap Allowed(snakes[i], xmax, ymax, bc, PassedMap(i)) # {}

\* ---- C20 -----------------------------------------------------------------
\* C20: under the wall policy, at the end of every tick, the cells of every
\* snake's body path are pairwise distinct (no snake has moved its head
\* onto a cell of its own body).
C20_BodyCellsDistinct ==
    (bc = "wall" /\ TickEnd) =>
        \A k \in SnakeIds : Cardinality(Cells(snakes[k])) = Len(snakes[k].linexpos)

====
